---- MODULE Spec2Model ----
(***************************************************************************)
(* A model of the two subsystems of f110_Imitation-Learning:               *)
(*   - Trainer.TRAIN / Trainer.loss_pass   (src/NN/train.py)               *)
(*   - Data_Utils.MOVE and the operations  (src/Data_Utils.py)             *)
(* Each subsystem has its own specification; the variables of the other    *)
(* subsystem stay at their initial values.                                 *)
(***************************************************************************)
EXTENDS Integers, Sequences, FiniteSets, TLC

(***************************************************************************)
(* Bounds of the model.                                                    *)
(***************************************************************************)
MaxEpochs == 2
MaxBatches == 2
MaxRows == 2
ImgRows == 2

\* the values a batch loss (ts_loss.item()) takes in the model
LossValues == {0, 1}

VARIABLES
    \* ---- Trainer (src/NN/train.py) ----
    pc,                \* "idle", "train", "valid", "done", "raised"
    num_epochs,        \* the configured epoch count
    nTrain, nValid,    \* number of batches the two loaders yield
    epoch,             \* loop variable of TRAIN
    i,                 \* batch index inside loss_pass
    total_epoch_loss,  \* accumulator of loss_pass
    train_epoch_loss,  \* result of the train pass of the current epoch
    best_train_loss, best_valid_loss,
    grad_enabled,      \* torch's global gradient switch
    ckpts,             \* torch.save calls: sequence of [tag, epoch, loss]
    scalars,           \* writer.add_scalar calls: sequence of [tag, value, step]
    logged,            \* vis.log_training calls: sequence of [best_train, best_valid]
    sink_calls,        \* names of the sink methods called, in call order
    passLog,           \* loss_pass entries and exits: sequence of [what, op, epoch]
    hist,              \* losses of the completed epochs: sequence of [train, valid]
    failed,            \* a batch step has raised
    params,            \* the model parameters: the number of optim.step() calls made
    batch_calls,       \* the calls of the last batch of the running pass, in order
    params_log,        \* the parameters at each entry of passLog
    \* ---- Data_Utils (src/Data_Utils.py) ----
    mpc,               \* "idle", "walk", "done", "raised", "returned"
    move_op,           \* op: "mv" or "aug"
    src_datadir, dest_datadir,
    flist,             \* the pipeline: sequence of [F, args]
    maxlen,
    src_df,            \* the source index: sequence of rows
    dest_df,           \* the rows accepted so far
    final_df,          \* the result of get_finaldf
    row_i,             \* loop variable of MOVE
    dest_datapath,
    dest_exists,       \* dest_datadir exists
    dest_entries,      \* the names of the entries of dest_datadir
    img_files,         \* image files written: sequence of [path, img]
    csv_files,         \* index files written: sequence of [path, df]
    mlog,              \* what MOVE did, in order: sequence of [ev, at]
    merr,              \* the exception MOVE ended with, "" for none
    \* ---- the operations of Data_Utils.py, called on one record ----
    opc,               \* "idle", "called", "apply_flist"
    in_dict,           \* the record as it was built: {"img": img, "row": row}
    the_dict,          \* the same dict object now (the operations work in place)
    before,            \* the dict object as it was before the last call
    ret,               \* what the last call returned or raised
    called             \* the partials called so far, or the list given to apply_flist

trainVars == <<pc, num_epochs, nTrain, nValid, epoch, i, total_epoch_loss,
               train_epoch_loss, best_train_loss, best_valid_loss, grad_enabled,
               ckpts, scalars, logged, sink_calls, passLog, hist, failed,
               params, batch_calls, params_log>>

moveVars == <<mpc, move_op, src_datadir, dest_datadir, flist, maxlen, src_df, dest_df,
              final_df, row_i, dest_datapath, dest_exists, dest_entries, img_files,
              csv_files, mlog, merr>>

opVars == <<opc, in_dict, the_dict, before, ret, called>>

vars == <<trainVars, moveVars, opVars>>

(***************************************************************************)
(* float('inf') and Python's > on the loss values.  Losses are the         *)
(* non-negative totals of the batch losses; Inf is above all of them.      *)
(***************************************************************************)
Inf == -1

float_gt(a, b) ==
    IF a = Inf THEN b # Inf
    ELSE IF b = Inf THEN FALSE
    ELSE a > b

\* the mutant of Improves: >= instead of >
Improves_ge(best, loss) == float_gt(best, loss) \/ best = loss

\* `if best_train_loss > train_epoch_loss` / `if best_valid_loss > valid_epoch_loss`
Improves(best, loss) == float_gt(best, loss)

\* (a variant that takes the loss of the last epoch for the best)
NewBest_last(best, loss) == loss

\* the new best after one epoch
NewBest(best, loss) == IF Improves(best, loss) THEN loss ELSE best

\* torch.save(net.state_dict(), .../<tag>) when the loss improves
SaveBest(cks, tag, best, loss, e) ==
    IF Improves(best, loss)
    THEN Append(cks, [tag |-> tag, epoch |-> e, loss |-> loss])
    ELSE cks

\* the mutant of InRange: one epoch too many
InRange_le(e, n) == e <= n

\* `for epoch in range(num_epochs)`
InRange(e, n) == e < n

\* the mutant of Unwind: the exception is swallowed inside the pass
Unwind_swallow(p) == p

\* an exception raised in a batch step meets no try/except in loss_pass, TRAIN
\* or __init__: the run ends
Unwind(p) == "raised"

\* the number of batches of the loader of a pass
Loader(op) == IF op = "train" THEN nTrain ELSE nValid

\* `if op=='train': ts_loss.backward(); optim.step()` (a variant that steps in
\* every pass)
StepsOptimizer_always(op) == TRUE

StepsOptimizer(op) == op = "train"

\* `if i % 20 == 0: self.vis.visualize_batch(...)`
VisEvery == 20

\* the calls of batch k of a pass, in the order of the loop body
BatchCalls(op, k) ==
    <<"optim.zero_grad", "net", "loss_func">>
        \o (IF StepsOptimizer(op) THEN <<"ts_loss.backward", "optim.step">> ELSE <<>>)
        \o <<"total_epoch_loss +=">>
        \o (IF k % VisEvery = 0 THEN <<"visualize_batch">> ELSE <<>>)

\* the optim.step() calls among calls
Steps(calls) == Cardinality({k \in DOMAIN calls : calls[k] = "optim.step"})

\* the parameters are noted with every entry the pass log gets
NoteParams(log, newlog, plog, ps) ==
    plog \o [k \in 1..(Len(newlog) - Len(log)) |-> ps]

\* loss_pass entry: `if op == 'valid': torch.set_grad_enabled(False)`
GradOnEntry(op, g) == IF op = "valid" THEN FALSE ELSE g

\* loss_pass exit: `if op == 'valid': torch.set_grad_enabled(True)`
GradOnExit(op, g) == IF op = "valid" THEN TRUE ELSE g

\* vis.log_training(...) then writer.close()
Finish(bt, bv, calls) ==
    /\ logged' = Append(logged, [best_train |-> bt, best_valid |-> bv])
    /\ sink_calls' = calls \o <<"log_training", "close">>
    /\ pc' = "done"

\* the state of the Trainer before TRAIN is called, but for the configuration
TrainStart ==
    /\ pc = "idle"
    /\ epoch = 0
    /\ i = 0
    /\ total_epoch_loss = 0
    /\ train_epoch_loss = 0
    /\ best_train_loss = Inf
    /\ best_valid_loss = Inf
    /\ grad_enabled = TRUE
    /\ ckpts = <<>>
    /\ scalars = <<>>
    /\ logged = <<>>
    /\ sink_calls = <<>>
    /\ passLog = <<>>
    /\ hist = <<>>
    /\ failed = FALSE
    /\ params = 0
    /\ batch_calls = <<>>
    /\ params_log = <<>>

TrainInit ==
    /\ num_epochs \in 0..MaxEpochs
    /\ nTrain \in 0..MaxBatches
    /\ nValid \in 0..MaxBatches
    /\ TrainStart

\* the mutant of EnterPass: the two loss_pass calls of an epoch are swapped
EnterPass_swapped(op, e, g, log) ==
    LET other == IF op = "train" THEN "valid" ELSE "train"
    IN /\ pc' = other
       /\ i' = 0
       /\ total_epoch_loss' = 0
       /\ grad_enabled' = GradOnEntry(other, g)
       /\ passLog' = Append(log, [what |-> "enter", op |-> other, epoch |-> e])

\* the call self.loss_pass(..., epoch, optim, op=op) up to the batch loop;
\* g and log are the gradient switch and the pass log at the call
EnterPass(op, e, g, log) ==
    /\ pc' = op
    /\ i' = 0
    /\ total_epoch_loss' = 0
    /\ grad_enabled' = GradOnEntry(op, g)
    /\ passLog' = Append(log, [what |-> "enter", op |-> op, epoch |-> e])

\* the return of loss_pass: the pass log after it
ExitPass(op, e, log) == Append(log, [what |-> "exit", op |-> op, epoch |-> e])

\* TRAIN is called: the best losses are set, and either the first train pass
\* starts or (num_epochs = 0) the run finishes at once
TRAIN ==
    /\ pc = "idle"
    /\ best_train_loss' = Inf
    /\ best_valid_loss' = Inf
    /\ epoch' = 0
    /\ IF InRange(0, num_epochs)
       THEN /\ EnterPass("train", 0, grad_enabled, passLog)
            /\ UNCHANGED <<logged, sink_calls>>
       ELSE /\ Finish(Inf, Inf, sink_calls)
            /\ UNCHANGED <<i, total_epoch_loss, grad_enabled, passLog>>
    /\ params_log' = NoteParams(passLog, passLog', params_log, params)
    /\ batch_calls' = <<>>
    /\ UNCHANGED <<num_epochs, nTrain, nValid, train_epoch_loss, ckpts, scalars,
                   hist, failed, params>>
    /\ UNCHANGED <<moveVars, opVars>>

\* one batch of a pass runs through; its loss is added to the total
BatchStep ==
    /\ pc \in {"train", "valid"}
    /\ i < Loader(pc)
    /\ \E loss \in LossValues :
          total_epoch_loss' = total_epoch_loss + loss
    /\ batch_calls' = BatchCalls(pc, i)
    /\ params' = params + Steps(BatchCalls(pc, i))
    /\ i' = i + 1
    /\ UNCHANGED <<pc, num_epochs, nTrain, nValid, epoch, train_epoch_loss,
                   best_train_loss, best_valid_loss, grad_enabled, ckpts, scalars,
                   logged, sink_calls, passLog, hist, failed, params_log>>
    /\ UNCHANGED <<moveVars, opVars>>

\* one batch of a pass raises: one of its calls raises, the calls before it
\* have been made
BatchRaise ==
    /\ pc \in {"train", "valid"}
    /\ i < Loader(pc)
    /\ \E k \in DOMAIN BatchCalls(pc, i) :
        /\ batch_calls' = SubSeq(BatchCalls(pc, i), 1, k)
        /\ params' = params + Steps(SubSeq(BatchCalls(pc, i), 1, k - 1))
    /\ failed' = TRUE
    /\ pc' = Unwind(pc)
    /\ UNCHANGED <<num_epochs, nTrain, nValid, epoch, i, total_epoch_loss,
                   train_epoch_loss, best_train_loss, best_valid_loss, grad_enabled,
                   ckpts, scalars, logged, sink_calls, passLog, hist, params_log>>
    /\ UNCHANGED <<moveVars, opVars>>

\* the train pass returns and TRAIN calls the validation pass
TrainPassExit ==
    /\ pc = "train"
    /\ i = Loader("train")
    /\ train_epoch_loss' = total_epoch_loss
    /\ EnterPass("valid", epoch, GradOnExit("train", grad_enabled),
                 ExitPass("train", epoch, passLog))
    /\ params_log' = NoteParams(passLog, passLog', params_log, params)
    /\ batch_calls' = <<>>
    /\ UNCHANGED <<num_epochs, nTrain, nValid, epoch, best_train_loss,
                   best_valid_loss, ckpts, scalars, logged, sink_calls, hist, failed,
                   params>>
    /\ UNCHANGED <<moveVars, opVars>>

\* the validation pass returns; TRAIN compares the losses, saves the
\* checkpoints, logs the two scalars and goes to the next epoch or finishes
ValidPassExit ==
    /\ pc = "valid"
    /\ i = Loader("valid")
    /\ LET valid_epoch_loss == total_epoch_loss
           g == GradOnExit("valid", grad_enabled)
           exited == ExitPass("valid", epoch, passLog)
           bt == NewBest(best_train_loss, train_epoch_loss)
           bv == NewBest(best_valid_loss, valid_epoch_loss)
           c1 == SaveBest(ckpts, "best_train_model", best_train_loss,
                          train_epoch_loss, epoch)
           c2 == SaveBest(c1, "best_valid_model", best_valid_loss,
                          valid_epoch_loss, epoch)
       IN /\ best_train_loss' = bt
          /\ best_valid_loss' = bv
          /\ ckpts' = c2
          /\ scalars' = scalars \o
                <<[tag |-> "Train Loss", value |-> train_epoch_loss, step |-> epoch],
                  [tag |-> "Valid Loss", value |-> valid_epoch_loss, step |-> epoch]>>
          /\ hist' = Append(hist, [train |-> train_epoch_loss,
                                   valid |-> valid_epoch_loss])
          /\ epoch' = epoch + 1
          /\ IF InRange(epoch + 1, num_epochs)
             THEN /\ EnterPass("train", epoch + 1, g, exited)
                  /\ sink_calls' = sink_calls \o <<"add_scalar", "add_scalar">>
                  /\ UNCHANGED logged
             ELSE /\ Finish(bt, bv, sink_calls \o <<"add_scalar", "add_scalar">>)
                  /\ grad_enabled' = g
                  /\ passLog' = exited
                  /\ UNCHANGED <<i, total_epoch_loss>>
    /\ params_log' = NoteParams(passLog, passLog', params_log, params)
    /\ batch_calls' = <<>>
    /\ UNCHANGED <<num_epochs, nTrain, nValid, train_epoch_loss, failed, params>>
    /\ UNCHANGED <<moveVars, opVars>>

(***************************************************************************)
(* Data_Utils: the Python values the pipeline handles.  Every value        *)
(* carries its type, since the code passes values of the wrong type to     *)
(* some calls.  Angles are in tenths of a radian.                          *)
(***************************************************************************)
None == [type |-> "NoneType"]

\* the image cv2.imread returns for the k-th row: ImgRows pixel rows
ndarray(k) == [type |-> "ndarray", id |-> k, rows |-> [r \in 1..ImgRows |-> r],
               mirrored |-> FALSE]

\* a row of the index: the image file name at position 0 (image n), the angle
\* at position 1
Series(n, a) == [type |-> "Series", name |-> n, angle |-> a]

\* a number
float(x) == [type |-> "float", value |-> x]

\* a name in a directory: base, or base + str(suffix); suffix -1 is no suffix
Name(base, suffix) == [base |-> base, suffix |-> suffix]

\* a path: the names from the root down
str(names) == [type |-> "str", names |-> names]

\* os.path.join(path, name)
join(path, name) == str(Append(path.names, name))

\* the last name of a path
basename(path) == path.names[Len(path.names)]

\* src_dict = {"img": img, "row": row}; no "flag" key yet
dict(img, row) == [type |-> "dict", img |-> img, row |-> row, flag |-> "unset"]

\* a scalar argument of an operation: a number or a string
Num(n) == [n |-> n, s |-> ""]
Str(t) == [n |-> 0, s |-> t]

\* what a call does: it returns a value or raises
Return(v) == [raised |-> FALSE, error |-> "", value |-> v]
Raise(e) == [raised |-> TRUE, error |-> e, value |-> None]

\* the angles of the rows of the model's source indices
Angles == {-1, 0, 2}

\* the source indices of the model: up to MaxRows rows, row k names image k
Indices ==
    UNION {{[k \in 1..n |-> Series(k, a[k])] : a \in [1..n -> Angles]} : n \in 0..MaxRows}

(***************************************************************************)
(* The operations.                                                         *)
(***************************************************************************)
\* Python's seq[start:stop] on a sequence of length R
SliceIndex(x, R) ==
    IF x < 0 THEN (IF x + R < 0 THEN 0 ELSE x + R) ELSE (IF x > R THEN R ELSE x)

Slice(seq, start, stop) ==
    LET a == SliceIndex(start, Len(seq))
        b == SliceIndex(stop, Len(seq))
    IN IF a >= b THEN <<>> ELSE SubSeq(seq, a + 1, b)

\* (a variant that takes a negative cropEnd for an index from the end)
cropVertical_fromEnd(args, src_dict) ==
    IF Len(args) # 2 THEN Raise("AssertionError")
    ELSE LET cropStart == args[1].n
             cropEnd == args[2].n
             src_img == src_dict.img
         IN IF cropEnd = 0 THEN Raise("Exception")
            ELSE IF src_img.type # "ndarray" THEN Raise("TypeError")
            ELSE Return([src_dict EXCEPT !.img.rows =
                            Slice(src_img.rows, cropStart, cropEnd)])

cropVertical(args, src_dict) ==
    IF Len(args) # 2 THEN Raise("AssertionError")
    ELSE LET cropStart == args[1].n
             cropEnd == args[2].n
             src_img == src_dict.img
         IN IF cropEnd = 0 THEN Raise("Exception")
            ELSE IF src_img.type # "ndarray" THEN Raise("TypeError")
            ELSE IF cropEnd < 0
            THEN Return([src_dict EXCEPT !.img.rows =
                            Slice(src_img.rows, cropStart, Len(src_img.rows))])
            ELSE Return([src_dict EXCEPT !.img.rows =
                            Slice(src_img.rows, cropStart, cropEnd)])

\* `cv2.rotate(img, ...)` names img, which is not defined: NameError
rot90(args, src_dict) ==
    IF Len(args) # 1 THEN Raise("AssertionError")
    ELSE IF args[1].s = "clockwise" THEN Raise("NameError")
    ELSE Return(src_dict)

\* src_row[1] of a row; a number has no [1]
Item1(row) == IF row.type = "Series" THEN Return(row.angle) ELSE Raise("IndexError")

\* dest_dict["row"] = src_row[1] + offset: the row becomes a number
radOffset(args, src_dict) ==
    IF Len(args) # 1 THEN Raise("AssertionError")
    ELSE LET a == Item1(src_dict.row)
         IN IF a.raised THEN a
            ELSE Return([src_dict EXCEPT !.row = float(a.value + args[1].n)])

\* x * 180.0 / math.pi, with pi = 355/113, rounded down
Degrees(x) == (x * 180 * 113) \div 355

\* dest_dict["row"] = src_row[1] * 180.0/math.pi: the row becomes a number
rad2deg(args, src_dict) ==
    IF Len(args) # 0 THEN Raise("AssertionError")
    ELSE LET a == Item1(src_dict.row)
         IN IF a.raised THEN a
            ELSE Return([src_dict EXCEPT !.row = float(Degrees(a.value))])

\* cv2.flip(img, 1)
cv2_flip(img) ==
    IF img.type = "ndarray" THEN Return([img EXCEPT !.mirrored = ~@])
    ELSE Raise("cv2.error")

\* (a variant that takes every angle up to zero for a zero angle)
flipNonZero_upto0(args, src_dict) ==
    IF Len(args) # 0 THEN Raise("AssertionError")
    ELSE LET a == Item1(src_dict.row)
         IN IF a.raised THEN a
            ELSE IF a.value <= 0 THEN Return([src_dict EXCEPT !.flag = "False"])
            ELSE LET f == cv2_flip(src_dict.img)
                 IN IF f.raised THEN f
                    ELSE Return([src_dict EXCEPT !.flag = "True",
                                                 !.img = f.value,
                                                 !.row.angle = -1 * a.value])

flipNonZero(args, src_dict) ==
    IF Len(args) # 0 THEN Raise("AssertionError")
    ELSE LET a == Item1(src_dict.row)
         IN IF a.raised THEN a
            ELSE IF a.value = 0 THEN Return([src_dict EXCEPT !.flag = "False"])
            ELSE LET f == cv2_flip(src_dict.img)
                 IN IF f.raised THEN f
                    ELSE Return([src_dict EXCEPT !.flag = "True",
                                                 !.img = f.value,
                                                 !.row.angle = -1 * a.value])

\* the names get_partial_func knows
KnownOps == {"cropVertical", "rad2deg", "radOffset", "rot90", "flipNonZero"}

\* functools.partial(<function of that name>, args), or an exception
get_partial_func(json_func) ==
    IF json_func.F \in KnownOps THEN Return(json_func) ELSE Raise("Exception")

\* the call p(src_dict) of a partial
Call(p, src_dict) ==
    CASE p.F = "cropVertical" -> cropVertical(p.args, src_dict)
      [] p.F = "rad2deg"      -> rad2deg(p.args, src_dict)
      [] p.F = "radOffset"    -> radOffset(p.args, src_dict)
      [] p.F = "rot90"        -> rot90(p.args, src_dict)
      [] p.F = "flipNonZero"  -> flipNonZero(p.args, src_dict)
      [] OTHER                -> Return(src_dict)

\* the loop of apply_flist over fl[k..]: each name is resolved, no partial is
\* called; resolved counts the get_partial_func calls
RECURSIVE ResolveFrom(_, _)
ResolveFrom(fl, k) ==
    IF k > Len(fl) THEN [raised |-> FALSE, error |-> "", resolved |-> Len(fl)]
    ELSE LET p == get_partial_func(fl[k])
         IN IF p.raised THEN [raised |-> TRUE, error |-> p.error, resolved |-> k]
            ELSE ResolveFrom(fl, k + 1)

\* apply_flist has no return statement: it returns None.  calls are the calls
\* it makes, in order: one get_partial_func per name, and no call of a partial.
apply_flist(src_dict, fl) ==
    LET r == ResolveFrom(fl, 1)
    IN [raised |-> r.raised, error |-> r.error, value |-> None,
        calls |-> [c \in 1..r.resolved |-> "get_partial_func"]]

\* dest_dict.get("flag", True); None has no get
get_flag(dest_dict) ==
    IF dest_dict.type # "dict" THEN Raise("AttributeError")
    ELSE Return(dest_dict.flag # "False")

\* the folder MOVE works on
folder == "data"

get_dest_datapath(dir, fo, o, entries) ==
    IF o = "aug" THEN join(dir, Name(fo, -1))
    ELSE join(dir, Name(fo, Cardinality(entries)))

\* df.iloc[idx] and cv2.imread
df_data_fromidx(df, idx) ==
    IF idx + 1 > Len(df) THEN Raise("IndexError")
    ELSE Return([img |-> ndarray(df[idx + 1].name), row |-> df[idx + 1]])

\* dest_df.append(src_df): the rows of dest_df, then the rows of src_df
get_finaldf(s_df, d_df, o) == IF o = "aug" THEN d_df \o s_df ELSE d_df

\* cv2.imwrite(filename, img): filename must be a string
cv2_imwrite(filename, img) ==
    IF filename.type = "str" THEN Return(filename) ELSE Raise("TypeError")

\* the assert at the entry of MOVE
EntryCheck(o, s_dir, d_dir) == o = "aug" /\ s_dir # d_dir

max(a, b) == IF a >= b THEN a ELSE b

\* the pipelines of the model
Op(name, args) == [F |-> name, args |-> args]

Pipelines ==
    {<<>>,
     <<Op("flipNonZero", <<>>)>>,
     <<Op("flipNonZero", <<>>), Op("flipNonZero", <<>>)>>,
     <<Op("rad2deg", <<>>)>>,
     <<Op("radOffset", <<Num(1)>>)>>,
     <<Op("cropVertical", <<Num(0), Num(1)>>)>>,
     <<Op("rot90", <<Str("anticlockwise")>>)>>,
     <<Op("flipZero", <<>>)>>,
     <<Op("flipNonZero", <<>>), Op("flipZero", <<>>)>>}

\* the names dest_datadir may hold before the call
EntryNames == {Name(folder, -1), Name(folder, 0), Name(folder, 1), Name("other", -1)}

Event(e, k) == [ev |-> e, at |-> k]

\* dest_row[0] of a row; a number has no [0]
Item0(row) == IF row.type = "Series" THEN Return(row.name) ELSE Raise("IndexError")

\* one iteration of the loop of MOVE on row k: the exception it ends with
\* ("" for none), what it did, the rows it appended to dest_df and the image
\* files it wrote
WalkStep(df, k, fl, path) ==
    LET ld == df_data_fromidx(df, k)
    IN IF ld.raised
       THEN [error |-> ld.error, events |-> <<>>, rows |-> <<>>, files |-> <<>>]
       ELSE
       LET r == apply_flist(dict(ld.value.img, ld.value.row), fl)
           e1 == <<Event("load", k)>> \o [c \in DOMAIN r.calls |-> Event(r.calls[c], k)]
       IN IF r.raised
          THEN [error |-> r.error, events |-> e1, rows |-> <<>>, files |-> <<>>]
          ELSE
          LET dest_dict == r.value
              flag == get_flag(dest_dict)
              e2 == Append(e1, Event("get_flag", k))
          IN IF flag.raised
             THEN [error |-> flag.error, events |-> e2, rows |-> <<>>, files |-> <<>>]
             ELSE IF ~flag.value
             THEN [error |-> "", events |-> e2, rows |-> <<>>, files |-> <<>>]
             ELSE
             LET dest_row == dest_dict.row
                 dest_img == dest_dict.img
                 dest_img_name == Item0(dest_row)
             IN IF dest_img_name.raised
                THEN [error |-> dest_img_name.error, events |-> e2, rows |-> <<>>,
                      files |-> <<>>]
                ELSE
                LET e3 == Append(e2, Event("append", k))
                    w == cv2_imwrite(dest_img, join(path, Name("img", dest_img_name.value)))
                IN IF w.raised
                   THEN [error |-> w.error, events |-> e3, rows |-> <<dest_row>>,
                         files |-> <<>>]
                   ELSE [error |-> "", events |-> Append(e3, Event("imwrite", k)),
                         rows |-> <<dest_row>>,
                         files |-> <<[path |-> w.value, img |-> dest_img]>>]

\* the state of Data_Utils before a call, but for the arguments
MoveStart ==
    /\ mpc = "idle"
    /\ src_datadir = "A"
    /\ final_df = <<>>
    /\ row_i = 0
    /\ dest_datapath = None
    /\ img_files = <<>>
    /\ csv_files = <<>>
    /\ mlog = <<>>
    /\ merr = ""

\* the arguments of a call of MOVE and the destination directory it meets
MoveInit ==
    /\ move_op \in {"mv", "aug"}
    /\ dest_datadir \in {"A", "B"}
    /\ flist \in Pipelines
    /\ maxlen \in -1..(MaxRows + 1)
    /\ src_df \in Indices
    /\ dest_df = <<>>
    /\ dest_exists \in BOOLEAN
    /\ dest_entries \in SUBSET EntryNames
    /\ ~dest_exists => dest_entries = {}
    /\ dest_datadir = "A" => dest_exists /\ Name(folder, -1) \in dest_entries
    /\ MoveStart

\* MOVE is called: the assert, os.makedirs, the two paths, the source index and
\* the bound of the loop
MOVE ==
    /\ mpc = "idle"
    /\ IF ~EntryCheck(move_op, src_datadir, dest_datadir)
       THEN /\ mpc' = "raised"
            /\ merr' = "AssertionError"
            /\ UNCHANGED <<maxlen, dest_df, row_i, dest_datapath, dest_exists, mlog>>
       ELSE /\ mpc' = "walk"
            /\ dest_exists' = TRUE
            /\ dest_datapath' = get_dest_datapath(str(<<Name(dest_datadir, -1)>>), folder, move_op,
                                                  dest_entries)
            /\ dest_df' = <<>>
            /\ maxlen' = max(Len(src_df), maxlen)
            /\ row_i' = 0
            /\ mlog' = mlog \o (IF dest_exists THEN <<>> ELSE <<Event("makedirs", 0)>>)
                            \o <<Event("read_csv", 0)>>
            /\ UNCHANGED merr
    /\ UNCHANGED <<move_op, src_datadir, dest_datadir, flist, src_df, final_df,
                   dest_entries, img_files, csv_files>>
    /\ UNCHANGED <<trainVars, opVars>>

\* one iteration of `for i in range(maxlen)`
MoveRecord ==
    /\ mpc = "walk"
    /\ row_i < maxlen
    /\ LET w == WalkStep(src_df, row_i, flist, dest_datapath)
       IN /\ mlog' = mlog \o w.events
          /\ dest_df' = dest_df \o w.rows
          /\ img_files' = img_files \o w.files
          /\ IF w.error # ""
             THEN mpc' = "raised" /\ merr' = w.error /\ UNCHANGED row_i
             ELSE row_i' = row_i + 1 /\ UNCHANGED <<mpc, merr>>
    /\ UNCHANGED <<move_op, src_datadir, dest_datadir, flist, maxlen, src_df, final_df,
                   dest_datapath, dest_exists, dest_entries, csv_files>>
    /\ UNCHANGED <<trainVars, opVars>>

\* `for i in range(n)` is over once i has reached n; the statements after the
\* loop run only then (a variant that lets them run at any point of the walk)
LoopDone_any(k, n) ==
    TRUE

LoopDone(k, n) ==
    k >= n

\* after the loop: get_finaldf and final_df.to_csv(dest_datapath/data.csv); the
\* folder dest_datapath must exist
MoveFinish ==
    /\ mpc = "walk"
    /\ LoopDone(row_i, maxlen)
    /\ final_df' = get_finaldf(src_df, dest_df, move_op)
    /\ IF basename(dest_datapath) \in dest_entries
       THEN /\ csv_files' = Append(csv_files, [path |-> join(dest_datapath,
                                                             Name("data.csv", -1)),
                                               df |-> final_df'])
            /\ mlog' = Append(mlog, Event("to_csv", 0))
            /\ mpc' = "done"
            /\ UNCHANGED merr
       ELSE /\ mpc' = "raised"
            /\ merr' = "OSError"
            /\ UNCHANGED <<csv_files, mlog>>
    /\ UNCHANGED <<move_op, src_datadir, dest_datadir, flist, maxlen, src_df, dest_df,
                   row_i, dest_datapath, dest_exists, dest_entries, img_files>>
    /\ UNCHANGED <<trainVars, opVars>>

\* get_finaldf called on its own
GetFinalDf ==
    /\ mpc = "idle"
    /\ final_df' = get_finaldf(src_df, dest_df, move_op)
    /\ mpc' = "returned"
    /\ UNCHANGED <<move_op, src_datadir, dest_datadir, flist, maxlen, src_df, dest_df,
                   row_i, dest_datapath, dest_exists, dest_entries, img_files,
                   csv_files, mlog, merr>>
    /\ UNCHANGED <<trainVars, opVars>>

\* get_dest_datapath called on its own
GetDestDatapath ==
    /\ mpc = "idle"
    /\ dest_datapath' = get_dest_datapath(str(<<Name(dest_datadir, -1)>>), folder, move_op,
                                          dest_entries)
    /\ mpc' = "returned"
    /\ UNCHANGED <<move_op, src_datadir, dest_datadir, flist, maxlen, src_df, dest_df,
                   final_df, row_i, dest_exists, dest_entries, img_files, csv_files,
                   mlog, merr>>
    /\ UNCHANGED <<trainVars, opVars>>

\* the arguments of a call of get_dest_datapath, and what os.listdir finds in
\* dest_datadir
DestPathInit ==
    /\ move_op \in {"mv", "aug"}
    /\ dest_datadir \in {"A", "B"}
    /\ dest_exists = TRUE
    /\ dest_entries \in SUBSET EntryNames
    /\ flist = <<>>
    /\ maxlen = -1
    /\ src_df = <<>>
    /\ dest_df = <<>>
    /\ MoveStart

\* the directory of the source, holding the source folder only
SourceOnly ==
    /\ dest_datadir = "A"
    /\ dest_exists = TRUE
    /\ dest_entries = {Name(folder, -1)}
    /\ flist = <<>>
    /\ maxlen = -1

\* the arguments of a call of get_finaldf
FinalDfInit ==
    /\ move_op \in {"mv", "aug"}
    /\ src_df \in Indices
    /\ dest_df \in Indices
    /\ SourceOnly
    /\ MoveStart

\* Data_Utils is not in use
MoveParked ==
    /\ move_op = "mv"
    /\ src_df = <<>>
    /\ dest_df = <<>>
    /\ SourceOnly
    /\ MoveStart

\* the Trainer is not in use
TrainParked ==
    /\ num_epochs = 0
    /\ nTrain = 0
    /\ nValid = 0
    /\ TrainStart

\* the operations: a record of one image and one row, nothing called yet
OpStart ==
    /\ opc = "idle"
    /\ the_dict = in_dict
    /\ before = in_dict
    /\ ret = Return(None)
    /\ called = <<>>

OpInit ==
    /\ in_dict \in {dict(ndarray(1), Series(1, a)) : a \in Angles}
    /\ OpStart

\* no operation is in use
OpParked ==
    /\ in_dict = dict(ndarray(1), Series(1, 0))
    /\ OpStart

\* the partials of the model: every operation, cropVertical with every pair of
\* bounds from below -ImgRows to above ImgRows
CropArgs == (0 - ImgRows - 1)..(ImgRows + 1)

Partials ==
    {Op("cropVertical", <<Num(cs), Num(ce)>>) : cs \in CropArgs, ce \in CropArgs}
        \cup {Op("flipNonZero", <<>>), Op("rad2deg", <<>>), Op("radOffset", <<Num(1)>>),
              Op("rot90", <<Str("clockwise")>>), Op("rot90", <<Str("anticlockwise")>>)}

\* the dict object after the call p(src_dict): `dest_dict = src_dict` makes the
\* returned dict the argument itself; a call that raises leaves what it had
\* assigned before (flipNonZero sets the flag before it calls cv2.flip)
After(p, src_dict) ==
    LET r == Call(p, src_dict)
    IN IF ~r.raised THEN r.value
       ELSE IF p.F = "flipNonZero" /\ r.error = "cv2.error"
       THEN [src_dict EXCEPT !.flag = "True"]
       ELSE src_dict

\* one operation is called on the record, and another on what it returned
CallOp ==
    /\ opc \in {"idle", "called"}
    /\ Len(called) <= 1
    /\ ~ret.raised
    /\ \E p \in Partials :
        /\ ret' = Call(p, the_dict)
        /\ the_dict' = After(p, the_dict)
        /\ called' = Append(called, p)
    /\ before' = the_dict
    /\ opc' = "called"
    /\ UNCHANGED in_dict
    /\ UNCHANGED <<trainVars, moveVars>>

\* Data_Utils.apply_flist is called on the record with a pipeline
ApplyFlist ==
    /\ opc = "idle"
    /\ \E fl \in Pipelines :
        /\ ret' = apply_flist(the_dict, fl)
        /\ called' = fl
    /\ opc' = "apply_flist"
    /\ UNCHANGED <<in_dict, the_dict, before>>
    /\ UNCHANGED <<trainVars, moveVars>>

Init == TrainInit /\ MoveParked /\ OpParked

Next == TRAIN \/ BatchStep \/ BatchRaise \/ TrainPassExit \/ ValidPassExit

Spec == Init /\ [][Next]_vars

\* the program is one thread that keeps running until it returns or raises
FairSpec == Spec /\ WF_vars(Next)

\* a call of Data_Utils.MOVE
MoveSpecInit == TrainParked /\ MoveInit /\ OpParked

MoveNext == MOVE \/ MoveRecord \/ MoveFinish

MoveSpec == MoveSpecInit /\ [][MoveNext]_vars

\* a call of Data_Utils.get_finaldf
FinalDfSpecInit == TrainParked /\ FinalDfInit /\ OpParked

FinalDfSpec == FinalDfSpecInit /\ [][GetFinalDf]_vars

\* a call of Data_Utils.get_dest_datapath
DestPathSpecInit == TrainParked /\ DestPathInit /\ OpParked

DestPathSpec == DestPathSpecInit /\ [][GetDestDatapath]_vars

\* the operations and apply_flist, called on a record
OpSpecInit == TrainParked /\ MoveParked /\ OpInit

OpNext == CallOp \/ ApplyFlist

OpSpec == OpSpecInit /\ [][OpNext]_vars

(***************************************************************************)
(* Properties of the Trainer.                                              *)
(***************************************************************************)
\* the epochs at which a checkpoint with this tag was written
SavedAt(tag) == {ckpts[k].epoch : k \in {j \in DOMAIN ckpts : ckpts[j].tag = tag}}

\* the number of entries of a sequence that satisfy a test
CountCalls(seq, name) == Cardinality({k \in DOMAIN seq : seq[k] = name})

PassCount(what, op) ==
    Cardinality({k \in DOMAIN passLog : passLog[k].what = what /\ passLog[k].op = op})

\* C1: best_train_model is written at epoch e if and only if the train loss of
\* epoch e is strictly lower than the train loss of every earlier epoch (a tie
\* with the running minimum does not write); the same for best_valid_model and
\* the validation loss.
C1_CheckpointIffNewMinimum ==
    /\ SavedAt("best_train_model") \cup SavedAt("best_valid_model")
          \subseteq 0..(Len(hist) - 1)
    /\ \A e \in 0..(Len(hist) - 1) :
          /\ (e \in SavedAt("best_train_model"))
                <=> (\A k \in 0..(e - 1) : hist[e + 1].train < hist[k + 1].train)
          /\ (e \in SavedAt("best_valid_model"))
                <=> (\A k \in 0..(e - 1) : hist[e + 1].valid < hist[k + 1].valid)

\* C1 witness: two epochs; the second ties the running minimum of the
\* validation loss and writes no best_valid_model, and sets a new minimum of
\* the train loss and writes best_train_model
C1_Witness ==
    /\ Len(hist) = 2
    /\ hist[1].valid = hist[2].valid
    /\ hist[2].train < hist[1].train
    /\ SavedAt("best_train_model") = {0, 1}
    /\ SavedAt("best_valid_model") = {0}

\* C2 (as claimed): gradient tracking is disabled exactly while a validation
\* pass is running, and is enabled again whenever the pass has exited, also
\* when a batch of the pass raised.
C2_GradRestoredOnEveryExit ==
    /\ pc = "valid" => ~grad_enabled
    /\ pc # "valid" => grad_enabled

\* the k-th entry of the pass log of a run in which the epochs run one after
\* another, train pass first
CanonicalPass(k) ==
    [what  |-> IF (k - 1) % 2 = 0 THEN "enter" ELSE "exit",
     op    |-> IF ((k - 1) \div 2) % 2 = 0 THEN "train" ELSE "valid",
     epoch |-> (k - 1) \div 4]

ControllerMove ==
    \/ pc' = pc
    \/ pc = "idle" /\ pc' \in {"train", "done"}
    \/ pc = "train" /\ pc' \in {"valid", "raised"} /\ epoch' = epoch
    \/ pc = "valid" /\ pc' = "train" /\ epoch' = epoch + 1
    \/ pc = "valid" /\ pc' \in {"done", "raised"}

\* C3: the passes are entered and left in the order train 0, valid 0, train 1,
\* valid 1, ...: a validation pass of epoch e starts only after the train pass
\* of epoch e has returned, epoch e+1 only after the validation pass of epoch e
\* has returned, and the controller moves only idle -> train -> valid ->
\* (train of the next epoch | done), or out by an error.
C3_EpochsSequential ==
    /\ [](\A k \in DOMAIN passLog : passLog[k] = CanonicalPass(k))
    /\ [](pc \in {"train", "valid"}
            => passLog[Len(passLog)] = [what |-> "enter", op |-> pc, epoch |-> epoch])
    /\ [][ControllerMove]_vars

\* C3 witness: the validation pass of the second epoch is running, after one
\* complete epoch and the train pass of the second
C3_Witness == pc = "valid" /\ epoch = 1 /\ Len(passLog) = 7

\* the state TRAIN returns in
DoneShape ==
    /\ PassCount("enter", "train") = num_epochs
    /\ PassCount("exit", "train") = num_epochs
    /\ PassCount("enter", "valid") = num_epochs
    /\ PassCount("exit", "valid") = num_epochs
    /\ Len(hist) = num_epochs
    /\ Len(logged) = 1
    /\ CountCalls(sink_calls, "log_training") = 1
    /\ CountCalls(sink_calls, "close") = 1
    /\ Len(sink_calls) = 2 * num_epochs + 2
    /\ sink_calls[Len(sink_calls) - 1] = "log_training"
    /\ sink_calls[Len(sink_calls)] = "close"

\* C4: without a failing batch TRAIN eventually returns; when it has returned,
\* exactly num_epochs train passes and num_epochs validation passes have run,
\* log_training has been called once and then close once; before that the
\* sink is neither summarised nor closed.
C4_TerminatesAfterAllEpochs ==
    /\ <>(pc = "done" \/ failed)
    /\ [](pc = "done" => DoneShape /\ ~failed)
    /\ [](pc # "done" => CountCalls(sink_calls, "log_training") = 0
                         /\ CountCalls(sink_calls, "close") = 0)

\* C4 witness: a run of two or more epochs has returned
C4_Witness == pc = "done" /\ num_epochs >= 2 /\ nTrain >= 1 /\ nValid >= 1

\* C5: once a batch step of epoch e has raised, nothing runs any more (no
\* batch, pass or epoch, no checkpoint, no log event), and no checkpoint and
\* no scalar of epoch e exists.
C5_FailureAbortsRun ==
    /\ [](failed => /\ pc = "raised"
                    /\ Len(hist) = epoch
                    /\ \A k \in DOMAIN ckpts : ckpts[k].epoch < epoch
                    /\ \A k \in DOMAIN scalars : scalars[k].step < epoch)
    /\ [][failed => UNCHANGED vars]_vars

\* C5 witness: a batch of the validation pass of the second epoch has raised,
\* after the first epoch wrote its checkpoints
C5_Witness ==
    /\ failed
    /\ epoch = 1
    /\ passLog[Len(passLog)].op = "valid"
    /\ Len(ckpts) = 2

\* C6 (as claimed): whenever TRAIN has stopped, by returning or by an error,
\* the sink has been closed.
C6_SinkClosedOnEveryExit ==
    pc \in {"done", "raised"} => CountCalls(sink_calls, "close") >= 1

(***************************************************************************)
(* Properties of Data_Utils.                                               *)
(***************************************************************************)
\* the operations of fl[k..] applied in list order, each to the record its
\* predecessor returned
RECURSIVE ChainFrom(_, _, _)
ChainFrom(d, fl, k) ==
    IF k > Len(fl) THEN Return(d)
    ELSE LET p == get_partial_func(fl[k])
         IN IF p.raised THEN Raise(p.error)
            ELSE LET r == Call(p.value, d)
                 IN IF r.raised THEN r ELSE ChainFrom(r.value, fl, k + 1)

\* the record of row k of df after the whole pipeline
Outcome(df, k, fl) == ChainFrom(dict(ndarray(df[k].name), df[k]), fl, 1)

\* every name of the pipeline is known, and no operation raises on a row of df
ChainRuns(df, fl) == \A k \in DOMAIN df : ~Outcome(df, k, fl).raised

\* the row of k-th record is accepted: its flag is true, or unset, after the chain
Accepted(df, k, fl) ==
    LET o == Outcome(df, k, fl) IN ~o.raised /\ o.value.flag # "False"

\* the rows of the accepted records of df[k..], as the pipeline left them
RECURSIVE AcceptedFrom(_, _, _)
AcceptedFrom(df, fl, k) ==
    IF k > Len(df) THEN <<>>
    ELSE (IF Accepted(df, k, fl) THEN <<Outcome(df, k, fl).value.row>> ELSE <<>>)
            \o AcceptedFrom(df, fl, k + 1)

HasUnknown(fl) == \E k \in DOMAIN fl : fl[k].F \notin KnownOps

Stopped == mpc \in {"done", "raised"}

\* C7 (as claimed): in augment mode the index built from a source index of N
\* rows and M accepted rows has N + M rows, the N source rows first, in their
\* order, then the M accepted rows in the order they were accepted.
C7_AugmentIndexSourceThenAccepted ==
    (mpc = "returned" /\ move_op = "aug")
        => /\ Len(final_df) = Len(src_df) + Len(dest_df)
           /\ final_df = src_df \o dest_df

\* C8 (as claimed): a move-mode call with a pipeline that runs on every row
\* ends with an index that holds exactly the rows of the accepted records, in
\* source order and as the pipeline left them (for <<flipNonZero>>: the rows
\* with a nonzero angle, the angle negated).
C8_MoveIndexIsAcceptedRows ==
    (Stopped /\ move_op = "mv" /\ ChainRuns(src_df, flist) /\ maxlen <= Len(src_df))
        => /\ mpc = "done"
           /\ Len(csv_files) = 1
           /\ csv_files[1].df = AcceptedFrom(src_df, flist, 1)

\* the number of operations called on record r before position k of the log
CallsBefore(k, r) ==
    Cardinality({j \in 1..(k - 1) : mlog[j] = Event("call", r)})

\* C9 (as claimed): the flag of a record is read only when the whole chain has
\* run on that record, and a row or an image is written only for a record
\* whose flag was read before and is true (or unset) after the chain.
C9_FlagReadAfterFullChain ==
    \A k \in DOMAIN mlog :
        /\ mlog[k].ev = "get_flag" => CallsBefore(k, mlog[k].at) = Len(flist)
        /\ mlog[k].ev \in {"append", "imwrite"}
              => /\ \E j \in 1..(k - 1) : mlog[j] = Event("get_flag", mlog[k].at)
                 /\ Accepted(src_df, mlog[k].at + 1, flist)

\* C10 (as claimed): with an unknown operation name in the pipeline no record
\* is loaded, nothing is written and the call never completes, whatever the
\* source index (the empty one included), and no name is resolved more often
\* than once for the pipeline.
C10_UnknownOperationFailsFast ==
    HasUnknown(flist)
        => /\ \A k \in DOMAIN mlog : mlog[k].ev # "load"
           /\ img_files = <<>>
           /\ csv_files = <<>>
           /\ mpc # "done"
           /\ Cardinality({k \in DOMAIN mlog : mlog[k].ev = "get_partial_func"})
                 <= Len(flist)

\* C11 (as claimed): a limit L with 0 < L < number of source rows bounds the
\* walk to the rows 0..L-1, and the default limit (-1) to all the rows: the
\* loop of MOVE runs over range(L), respectively range(number of rows), and no
\* row at or beyond that bound is loaded.
C11_LimitTruncates ==
    /\ [][(mpc = "idle" /\ mpc' = "walk")
            => /\ (0 < maxlen /\ maxlen < Len(src_df)) => maxlen' = maxlen
               /\ maxlen = -1 => maxlen' = Len(src_df)]_vars
    /\ [](\A k \in DOMAIN mlog : mlog[k].ev = "load" => mlog[k].at < maxlen)

\* C12 (as claimed): the assert at the entry of MOVE fails exactly for an
\* augment call whose two roots differ; a call it fails has made no directory
\* and read no index, and every other call gets past it.
C12_EntryCheckRejectsAugmentMismatch ==
    mpc # "idle"
        => /\ (merr = "AssertionError")
                <=> (move_op = "aug" /\ src_datadir # dest_datadir)
           /\ merr = "AssertionError"
                => mlog = <<>> /\ csv_files = <<>> /\ img_files = <<>>

\* C13: MOVE writes the index at most once and as its last step, after the
\* loop over the records has run to its end; a run that raised, at the entry,
\* at any record of the walk or in the write itself, has written no index.
C13_IndexWrittenOnceLast ==
    /\ Len(csv_files) <= 1
    /\ CountCalls([k \in DOMAIN mlog |-> mlog[k].ev], "to_csv") = Len(csv_files)
    /\ csv_files # <<>>
        => /\ mpc = "done"
           /\ row_i >= maxlen
           /\ mlog[Len(mlog)].ev = "to_csv"
           /\ csv_files[1].df = final_df
    /\ mpc = "raised" => csv_files = <<>>

C13_Witness ==
    /\ mpc = "done"
    /\ Len(csv_files) = 1
    /\ mlog[Len(mlog)].ev = "to_csv"

\* C14 (as claimed): apply_flist applies the operations of the list in list
\* order, each to the record its predecessor returned, and returns the record
\* the last one returned; for the empty list it returns the record it got.
C14_ApplyFlistFoldsInOrder ==
    opc = "apply_flist"
        => LET want == ChainFrom(in_dict, called, 1)
           IN ~want.raised => ~ret.raised /\ ret.value = want.value

\* C15 (as claimed): in move mode get_dest_datapath names the destination
\* folder + str(number of entries of dest_datadir), and whatever the entries of
\* dest_datadir are, that name is the name of none of them.
C15_MoveNameIsCountAndFresh ==
    (mpc = "returned" /\ move_op = "mv")
        => /\ dest_datapath = join(str(<<Name(dest_datadir, -1)>>),
                                   Name(folder, Cardinality(dest_entries)))
           /\ basename(dest_datapath) \notin dest_entries

\* the last partial called on the record
LastCalled == called[Len(called)]

\* C16 (as claimed): radOffset and rad2deg, called on a record whose row is a
\* row of the index, return the record with a row of the same shape: position
\* 0 still the image file name, position 1 the new angle (angle + offset,
\* respectively the angle in degrees), the image and the flag untouched.
C16_AngleOpsKeepRowShape ==
    (opc = "called" /\ LastCalled.F \in {"radOffset", "rad2deg"}
                    /\ before.row.type = "Series")
        => /\ ~ret.raised
           /\ ret.value = the_dict
           /\ the_dict.row.type = "Series"
           /\ the_dict.row.name = before.row.name
           /\ the_dict.row.angle = IF LastCalled.F = "radOffset"
                                   THEN before.row.angle + LastCalled.args[1].n
                                   ELSE Degrees(before.row.angle)
           /\ the_dict.img = before.img
           /\ the_dict.flag = before.flag

\* C17: flipNonZero called on a record with a nonzero angle mirrors the image,
\* negates the angle and sets the flag true; called twice it gives back the
\* image and the row the record had, the flag true after each call.  Called on
\* a record with angle zero it sets the flag false and leaves image and row.
C17_FlipTwiceRestores ==
    /\ (opc = "called" /\ LastCalled.F = "flipNonZero" /\ before.row.type = "Series")
        => /\ ~ret.raised
           /\ ret.value = the_dict
           /\ before.row.angle = 0
                => the_dict = [before EXCEPT !.flag = "False"]
           /\ before.row.angle # 0
                => /\ the_dict.flag = "True"
                   /\ the_dict.img = [before.img EXCEPT !.mirrored = ~@]
                   /\ the_dict.row = [before.row EXCEPT !.angle = 0 - @]
    /\ (opc = "called" /\ Len(called) = 2 /\ in_dict.row.angle # 0
            /\ \A k \in DOMAIN called : called[k].F = "flipNonZero")
        => /\ before.flag = "True"
           /\ the_dict.flag = "True"
           /\ the_dict.img = in_dict.img
           /\ the_dict.row = in_dict.row

C17_Witness ==
    /\ opc = "called"
    /\ Len(called) = 2
    /\ \A k \in DOMAIN called : called[k].F = "flipNonZero"
    /\ in_dict.row.angle # 0
    /\ before.img.mirrored
    /\ the_dict.img = in_dict.img
    /\ the_dict.row = in_dict.row

\* the pass that is running, or that raised: the op of the last entry of the
\* pass log, when that entry is the entry of a pass
InPass(op) ==
    /\ passLog # <<>>
    /\ passLog[Len(passLog)] = [what |-> "enter", op |-> op, epoch |-> epoch]

\* C18: a validation pass makes no backward and no optimizer step, so from its
\* entry to its exit the parameters are those the train pass of the epoch
\* ended with; in a train pass every batch calls optim.zero_grad, the forward,
\* the loss, backward and optim.step in this order, and then adds its loss to
\* the total of the pass.
C18_ValidationNeverSteps ==
    /\ \A k \in DOMAIN passLog :
          passLog[k].op = "valid"
            => /\ k > 1
               /\ passLog[k - 1].op = IF passLog[k].what = "enter" THEN "train" ELSE "valid"
               /\ passLog[k - 1].epoch = passLog[k].epoch
               /\ params_log[k] = params_log[k - 1]
    /\ InPass("valid")
        => /\ params = params_log[Len(params_log)]
           /\ \A k \in DOMAIN batch_calls :
                 batch_calls[k] \notin {"ts_loss.backward", "optim.step"}
    /\ (InPass("train") /\ batch_calls # <<>>)
        => LET order == <<"optim.zero_grad", "net", "loss_func", "ts_loss.backward",
                          "optim.step", "total_epoch_loss +=">>
               n == IF Len(batch_calls) < Len(order) THEN Len(batch_calls) ELSE Len(order)
           IN /\ SubSeq(batch_calls, 1, n) = SubSeq(order, 1, n)
              /\ ~failed => n = Len(order) /\ params = params_log[Len(params_log)] + i

C18_Witness ==
    /\ pc = "done"
    /\ nValid = MaxBatches
    /\ \E k \in DOMAIN passLog :
          /\ passLog[k] = [what |-> "exit", op |-> "valid", epoch |-> 1]
          /\ params_log[k] = 2 * nTrain
          /\ params_log[k] > 0

\* the last call was cropVertical(cs, ce) on a record whose image has R rows
CropCalled(cs, ce, R) ==
    /\ opc = "called"
    /\ LastCalled = Op("cropVertical", <<Num(cs), Num(ce)>>)
    /\ before.img.type = "ndarray"
    /\ Len(before.img.rows) = R

\* C19 (as claimed): cropVertical(s, e) on an image of R rows returns an image
\* of exactly e - s rows when e > 0 and of exactly R - s rows when e < 0, for
\* all s and e of the range, s > e, e > R and s > R included; with e = 0 it
\* raises and leaves the record as it was.
C19_CropRowCount ==
    \A cs \in CropArgs, ce \in CropArgs, R \in 0..ImgRows :
        CropCalled(cs, ce, R)
            => /\ ce > 0 => ~ret.raised /\ Len(the_dict.img.rows) = ce - cs
               /\ ce < 0 => ~ret.raised /\ Len(the_dict.img.rows) = R - cs
               /\ ce = 0 => ret.raised /\ the_dict = before

\* C19 (amended): the row counts are e - s and R - s when the bounds lie in
\* the image, 0 <= s <= e <= R, respectively 0 <= s <= R: the image is then
\* the rows s..e-1, respectively s..R-1, of the one given.  Other bounds are
\* clamped the way a slice clamps them: nothing is raised, the image has at
\* most R rows, and none when 0 <= e <= s.  With e = 0 the call raises and
\* leaves the record as it was.
C19_CropRowCountInRange ==
    \A cs \in CropArgs, ce \in CropArgs, R \in 0..ImgRows :
        CropCalled(cs, ce, R)
            => /\ (ce > 0 /\ 0 <= cs /\ cs <= ce /\ ce <= R)
                    => /\ ~ret.raised
                       /\ Len(the_dict.img.rows) = ce - cs
                       /\ the_dict = [before EXCEPT !.img.rows =
                                         [k \in 1..(ce - cs) |-> before.img.rows[cs + k]]]
               /\ (ce < 0 /\ 0 <= cs /\ cs <= R)
                    => /\ ~ret.raised
                       /\ Len(the_dict.img.rows) = R - cs
                       /\ the_dict = [before EXCEPT !.img.rows =
                                         [k \in 1..(R - cs) |-> before.img.rows[cs + k]]]
               /\ ce # 0
                    => /\ ~ret.raised
                       /\ ret.value = the_dict
                       /\ Len(the_dict.img.rows) <= R
                       /\ (0 < ce /\ ce <= cs) => the_dict.img.rows = <<>>
               /\ ce = 0 => ret.raised /\ ret.error = "Exception" /\ the_dict = before

C19_Witness ==
    /\ CropCalled(1, ImgRows, ImgRows)
    /\ ~ret.raised
    /\ Len(the_dict.img.rows) = ImgRows - 1
    /\ the_dict.img.rows[1] = 2

\* the least of the losses vals, +infinity if there is none
MinOf(vals) == IF vals = {} THEN Inf ELSE CHOOSE v \in vals : \A w \in vals : v <= w

\* the last checkpoint written with this tag
LastSaved(tag) ==
    LET at == {k \in DOMAIN ckpts : ckpts[k].tag = tag}
    IN ckpts[CHOOSE k \in at : \A j \in at : j <= k]

\* C20: the two best losses never increase; each is the minimum of +infinity
\* and the losses of the completed epochs; every checkpoint holds the loss of
\* the epoch it was written at, and the best loss log_training reports is the
\* loss of the last checkpoint of its kind, or +infinity if there is none;
\* with num_epochs = 0 no checkpoint is written and both reported values are
\* +infinity.
C20_BestLossIsRunningMinimum ==
    /\ [](/\ best_train_loss = MinOf({hist[k].train : k \in DOMAIN hist})
          /\ best_valid_loss = MinOf({hist[k].valid : k \in DOMAIN hist})
          /\ \A k \in DOMAIN ckpts :
                /\ ckpts[k].epoch + 1 \in DOMAIN hist
                /\ ckpts[k].loss = IF ckpts[k].tag = "best_train_model"
                                   THEN hist[ckpts[k].epoch + 1].train
                                   ELSE hist[ckpts[k].epoch + 1].valid
          /\ pc = "done"
                => /\ Len(logged) = 1
                   /\ logged[1].best_train =
                        IF SavedAt("best_train_model") = {} THEN Inf
                        ELSE LastSaved("best_train_model").loss
                   /\ logged[1].best_valid =
                        IF SavedAt("best_valid_model") = {} THEN Inf
                        ELSE LastSaved("best_valid_model").loss
          /\ num_epochs = 0
                => /\ ckpts = <<>>
                   /\ pc = "done" => logged = <<[best_train |-> Inf, best_valid |-> Inf]>>)
    /\ [][/\ ~float_gt(best_train_loss', best_train_loss)
          /\ ~float_gt(best_valid_loss', best_valid_loss)]_vars

C20_Witness ==
    /\ pc = "done"
    /\ Len(hist) = 2
    /\ hist[2].train > hist[1].train
    /\ hist[2].valid < hist[1].valid
    /\ SavedAt("best_train_model") = {0}
    /\ SavedAt("best_valid_model") = {0, 1}
    /\ logged = <<[best_train |-> hist[1].train, best_valid |-> hist[2].valid]>>

====
